---- MODULE Spec2Model ----
(***************************************************************************)
(* Model of proton-ge-manager: the release catalog fetcher                 *)
(* (internal/github/releases.go), the asset selector (PickLinuxTarball)    *)
(* and the archive extractor (install.DownloadAndExtract).                 *)
(***************************************************************************)
EXTENDS Integers, Sequences, FiniteSets, TLC

VARIABLES
    \* ---- FetchAllReleases (releases.go:41-104)
    fpc,        \* position: "request" (top of the for loop), "filter", "done"
    page,       \* page counter
    all,        \* accumulated releases
    out,        \* returned slice
    ferr,       \* returned error ("none" when nil)
    served,     \* history: the lengths of the pages served, in request order
    catalog,    \* history: the concatenation of the pages served
    requests,   \* history: the page numbers handed to client.Do, in order
    lastResp,   \* history: what the last request ended in
    cancelled,  \* whether ctx has been cancelled
    \* ---- PickLinuxTarball (releases.go:106-135)
    ppc,        \* "call" or "ret"
    assets,     \* the argument
    picked,     \* the returned asset
    found,      \* the returned bool
    \* ---- DownloadAndExtract (unnamed/part_001:64-168)
    xpc,        \* "loop" (top of the for loop) or "ret"
    archive,    \* history: the tar headers read so far, in archive order
    fs,         \* the file system: canonical path -> node
    createdTopFolder,
    xerr,       \* returned error ("none" when nil)
    warnings,   \* number of warnings emitted through logLine
    rpos,       \* second extraction of the same archive: the next entry
    fs1,        \* history: the file system as the first extraction left it
    \* ---- the progress bar of one install (part_001:79-96, ui.go:234-252)
    gpc,        \* the install goroutine: "start", "read" or "done"
    respLen,    \* resp.ContentLength (-1 when the transport does not know it)
    sizeHint,   \* the asset size handed over by the caller
    remaining,  \* bytes of the response body not yet read
    contentLen, \* the expected total the fractions are taken of
    bytesRead,  \* the running byte counter
    uiq,        \* the functions queued by fyne.Do, oldest first
    bar,        \* history: the values given to the progress bar, in order
    \* ---- the lists and selections of the window (ui.go:26-35, 87-315)
    disk,               \* the directory names inside the install directory
    currentInstalled,
    selectedInstalled,
    availableReleases,
    currentAvailable,
    selectedAvailable,
    loaders,    \* the loadAvailable goroutines: position and local variables
    uipc,       \* the UI goroutine: "idle", or the handler it is inside
    uii,        \* the index the handler on the UI goroutine holds
    pendingRemove,  \* the name the open confirm dialog asks about
    ipc,        \* the install goroutine: "none", "download", "readdir", "assign", "done"
    irel,       \* the release the install goroutine installs
    inames,     \* the names its loadInstalled has read
    installs,   \* number of installs started so far
    refreshBudget,  \* number of loadAvailable goroutines that may still start
    panicked    \* "no", or the place where an index was out of range

fvars == <<fpc, page, all, out, ferr, served, catalog, requests, lastResp, cancelled>>
pvars == <<ppc, assets, picked, found>>
xvars == <<xpc, archive, fs, createdTopFolder, xerr, warnings, rpos, fs1>>
gvars == <<gpc, respLen, sizeHint, remaining, contentLen, bytesRead, uiq, bar>>
uvars == <<disk, currentInstalled, selectedInstalled, availableReleases,
           currentAvailable, selectedAvailable, loaders, uipc, uii,
           pendingRemove, ipc, irel, inames, installs, refreshBudget, panicked>>
ovars == <<gvars, uvars>>
vars == <<fvars, pvars, xvars, ovars>>

(***************************************************************************)
(* Strings are sequences of one-character strings, so that ToLower,        *)
(* HasSuffix and Contains are computed and not assumed.                    *)
(***************************************************************************)
LowerChar(c) ==
    CASE c = "A" -> "a" [] c = "E" -> "e" [] c = "G" -> "g" [] c = "N" -> "n"
      [] c = "O" -> "o" [] c = "P" -> "p" [] c = "R" -> "r" [] c = "T" -> "t"
      [] c = "Z" -> "z" [] OTHER -> c

ToLower(s) == [i \in 1..Len(s) |-> LowerChar(s[i])]

HasSuffix(s, suffix) ==
    /\ Len(s) >= Len(suffix)
    /\ SubSeq(s, Len(s) - Len(suffix) + 1, Len(s)) = suffix

Contains(s, substr) ==
    \E i \in 1..(Len(s) + 1) :
        /\ i + Len(substr) - 1 <= Len(s)
        /\ SubSeq(s, i, i + Len(substr) - 1) = substr

TarGz == <<".", "t", "a", "r", ".", "g", "z">>
GeProton == <<"g", "e", "-", "p", "r", "o", "t", "o", "n">>

\* asset names the model draws from
NameGeTar == <<"G", "E", "-", "P", "r", "o", "t", "o", "n", ".", "t", "a", "r", ".", "g", "z">>
NameBuildTarUpper == <<"b", ".", "T", "a", "r", ".", "G", "Z">>
NameReadme == <<"r", ".", "t", "x", "t">>
NameGeSha == <<"G", "E", "-", "P", "r", "o", "t", "o", "n", ".", "t", "a", "r", ".", "g", "z", ".", "s", "h", "a">>

(***************************************************************************)
(* PickLinuxTarball (releases.go:106-135)                                  *)
(***************************************************************************)
\* bounds of the selector's inputs
MaxAssets == 3
MaxSize == 2

Asset(n, sz, u) == [name |-> n, size |-> sz, url |-> u]

\* releases.go:110
IsTier1(a) ==
    /\ HasSuffix(ToLower(a.name), TarGz)
    /\ Contains(ToLower(a.name), GeProton)

\* the suffix test without the lower-casing
IsTier2CaseSensitive(a) == HasSuffix(a.name, TarGz)

\* releases.go:116
IsTier2(a) == HasSuffix(ToLower(a.name), TarGz)

\* both tiers gathered into one candidate list
CandidatesOneTier(as) == SelectSeq(as, LAMBDA a : HasSuffix(ToLower(a.name), TarGz))

\* releases.go:108-120: the candidates, in input order
Candidates(as) ==
    LET cands == SelectSeq(as, IsTier1)
    IN  IF Len(cands) = 0 THEN SelectSeq(as, IsTier2) ELSE cands

\* releases.go:124-133: the comparison handed to slices.SortFunc
SizeCmp(a, b) ==
    IF a.size = b.size THEN 0 ELSE IF a.size < b.size THEN 1 ELSE -1

\* slices.SortFunc is the pattern-defeating quicksort of the Go library; it
\* is documented as not stable.  Ranges of at most maxInsertion elements are
\* sorted by insertion, which keeps equal elements in input order.
maxInsertion == 12

Less(a, b) == SizeCmp(a, b) < 0

RECURSIVE InsertInto(_, _)
InsertInto(sorted, x) ==
    IF Len(sorted) = 0 \/ ~Less(x, sorted[Len(sorted)])
    THEN Append(sorted, x)
    ELSE Append(InsertInto(SubSeq(sorted, 1, Len(sorted) - 1), x), sorted[Len(sorted)])

RECURSIVE InsertionSort(_)
InsertionSort(data) ==
    IF Len(data) = 0 THEN << >>
    ELSE InsertInto(InsertionSort(SubSeq(data, 1, Len(data) - 1)), data[Len(data)])

Swap(d, i, j) == [d EXCEPT ![i] = d[j], ![j] = d[i]]

\* order2: the two indices ordered by their elements, and whether they swapped
Order2(d, x, y) == IF Less(d[y], d[x]) THEN <<y, x, 1>> ELSE <<x, y, 0>>

\* choosePivot for a range of 8 to 49 elements: the median of the elements at
\* the three quarter points, and whether the three were found in order
ChoosePivot(d) ==
    LET q == Len(d) \div 4
        o1 == Order2(d, q + 1, 2 * q + 1)
        o2 == Order2(d, o1[2], 3 * q + 1)
        o3 == Order2(d, o1[1], o2[1])
    IN  [pivot |-> o3[2], increasing |-> o1[3] + o2[3] + o3[3] = 0]

IsSortedSeq(d) == \A i \in 2..Len(d) : ~Less(d[i], d[i - 1])

RECURSIVE ScanUp(_, _, _)
ScanUp(d, i, j) == IF i <= j /\ Less(d[i], d[1]) THEN ScanUp(d, i + 1, j) ELSE i

RECURSIVE ScanDown(_, _, _)
ScanDown(d, i, j) == IF i <= j /\ ~Less(d[j], d[1]) THEN ScanDown(d, i, j - 1) ELSE j

\* partition: the pivot waits at index 1 while the elements before it in the
\* order are gathered on the left, then it is put between the two sides
RECURSIVE PartitionLoop(_, _, _)
PartitionLoop(d, i, j) ==
    LET i2 == ScanUp(d, i, j)
        j2 == ScanDown(d, i2, j)
    IN  IF i2 > j2 THEN [data |-> Swap(d, j2, 1), mid |-> j2]
        ELSE PartitionLoop(Swap(d, i2, j2), i2 + 1, j2 - 1)

Partition(d, pivot) == PartitionLoop(Swap(d, 1, pivot), 2, Len(d))

\* a range of maxInsertion + 1 elements: left alone when it is found sorted,
\* else partitioned once, which leaves two ranges that are sorted by insertion
SortOnePartition(d) ==
    LET c == ChoosePivot(d)
    IN  IF c.increasing /\ IsSortedSeq(d) THEN d
        ELSE LET p == Partition(d, c.pivot)
             IN  InsertionSort(SubSeq(p.data, 1, p.mid - 1))
                   \o <<p.data[p.mid]>>
                   \o InsertionSort(SubSeq(p.data, p.mid + 1, Len(d)))

\* The elements slices.SortFunc can leave at index 0.  For longer ranges the
\* first element is whatever the library's choice of pivots makes it: any
\* element that no other element precedes under the comparison.
SortFuncFirst(cands) ==
    IF Len(cands) <= maxInsertion THEN {InsertionSort(cands)[1]}
    ELSE IF Len(cands) = maxInsertion + 1 THEN {SortOnePartition(cands)[1]}
    ELSE {cands[i] : i \in {k \in 1..Len(cands) :
                              \A j \in 1..Len(cands) : ~Less(cands[j], cands[k])}}

NoAsset == [name |-> << >>, size |-> 0, url |-> 0]

\* every (asset, ok) pair PickLinuxTarball can return for the argument
PickLinuxTarball(as) ==
    LET cands == Candidates(as)
    IN  IF Len(cands) = 0
        THEN {[asset |-> NoAsset, ok |-> FALSE]}
        ELSE {[asset |-> a, ok |-> TRUE] : a \in SortFuncFirst(cands)}

AssetNames == {NameGeTar, NameBuildTarUpper, NameReadme, NameGeSha}

\* asset lists of length n whose i-th asset has url i
ShortAssetLists ==
    UNION {{[i \in 1..n |-> Asset(f[i][1], f[i][2], i)] :
              f \in [1..n -> AssetNames \X (1..MaxSize)]} : n \in 0..MaxAssets}

\* lists one element longer than insertion sort takes, of one name, in
\* every combination of the two extreme sizes
LongAssetLists ==
    {[i \in 1..(maxInsertion + 1) |-> Asset(NameGeTar, f[i], i)] :
        f \in [1..(maxInsertion + 1) -> {1, MaxSize}]}


PickCall ==
    /\ ppc = "call"
    /\ \E r \in PickLinuxTarball(assets) :
          /\ picked' = r.asset
          /\ found' = r.ok
    /\ ppc' = "ret"
    /\ UNCHANGED <<assets, fvars, xvars, ovars>>

(***************************************************************************)
(* FetchAllReleases (releases.go:41-104)                                   *)
(***************************************************************************)
perPage == 100

\* bound on the page counter
MaxPage == 3

\* the lengths of the pages the API may answer with
PageLens == {0, 99, 100, 200}

Release(t, d, as) == [tag |-> t, draft |-> d, assets |-> as]

\* the shapes of release the API serves
ReleaseKind(k, t) ==
    CASE k = 1 -> Release(t, FALSE, <<Asset(NameGeTar, 2, 1)>>)
      [] k = 2 -> Release(t, TRUE, <<Asset(NameBuildTarUpper, 2, 1)>>)
      [] k = 3 -> Release(t, FALSE, << >>)
      [] k = 4 -> Release(t, FALSE, <<Asset(NameReadme, 1, 1)>>)
      [] k = 5 -> Release(t, FALSE, <<Asset(NameReadme, 1, 1), Asset(NameBuildTarUpper, 1, 2)>>)
      [] OTHER -> Release(t, TRUE, << >>)

\* a page is a repeating pattern of shapes; tags number the releases served
Patterns == {<<2, 1, 4, 5>>, <<3, 5, 6, 1, 2>>}

PageOf(pat, n, base) ==
    [i \in 1..n |-> ReleaseKind(pat[((base + i - 1) % Len(pat)) + 1], base + i)]

\* the loop also ends on a total of exactly page*perPage
ShouldBreakOnFull(total, pg) == total <= pg * perPage

\* releases.go:87: the loop ends when the total falls short of page*perPage
ShouldBreak(total, pg) == total < pg * perPage

\* the filter without its draft test
KeepsDrafts(r) == \E a \in {r.assets[i] : i \in 1..Len(r.assets)} : HasSuffix(ToLower(a.name), TarGz)

\* releases.go:96-101: does the filter keep r
Keeps(r) ==
    /\ ~r.draft
    /\ \E res \in PickLinuxTarball(r.assets) : res.ok

\* an iteration that leaves the kept element where it was read
FilterStepInPlace(st, i) ==
    IF Keeps(st.store[i])
    THEN [store |-> st.store, len |-> st.len + 1]
    ELSE st

\* releases.go:94-102: out := all[:0] shares all's storage; the loop reads
\* element i of the storage and appends the kept ones from index 0 on.
\* One iteration of the loop: st.store is the shared storage, st.len is len(out)
FilterStep(st, i) ==
    LET r == st.store[i]
    IN  IF Keeps(r)
        THEN [store |-> [st.store EXCEPT ![st.len + 1] = r], len |-> st.len + 1]
        ELSE st

\* iterations lo..hi in index order (the range is halved, and the first half
\* evaluated before the second is entered, to keep the evaluation shallow;
\* len(out) never exceeds the number of elements read, so the test is true)
RECURSIVE FilterRange(_, _, _)
FilterRange(st, lo, hi) ==
    IF lo > hi THEN st
    ELSE IF lo = hi THEN FilterStep(st, lo)
    ELSE LET mid == (lo + hi) \div 2
             left == FilterRange(st, lo, mid)
         IN  IF left.len <= mid THEN FilterRange(left, mid + 1, hi) ELSE left

FilterLoop(acc) == FilterRange([store |-> acc, len |-> 0], 1, Len(acc))


\* what a request ends in: a transport error, or a response with a status
\* and a body that is or is not the JSON of a list of releases
Response(n, st, j) == [neterr |-> n, status |-> st, json |-> j]
NoResponse == Response(FALSE, 0, FALSE)
OkResponse == Response(FALSE, 200, TRUE)
Responses ==
    {Response(TRUE, 0, FALSE)}
      \cup {Response(FALSE, st, j) : st \in {199, 200, 204, 300, 403, 404, 500}, j \in BOOLEAN}

StatusForbidden == 403

\* the generic status test placed before the test for 403
ErrorOfGenericFirst(resp) ==
    IF resp.neterr THEN "transport"
    ELSE IF resp.status < 200 \/ resp.status >= 300 THEN "api"
    ELSE IF resp.status = StatusForbidden THEN "ratelimit"
    ELSE IF ~resp.json THEN "decode"
    ELSE "none"

\* releases.go:59-78 the error a request's outcome yields ("none" for nil)
ErrorOf(resp) ==
    IF resp.neterr THEN "transport"
    ELSE IF resp.status = StatusForbidden THEN "ratelimit"
    ELSE IF resp.status < 200 \/ resp.status >= 300 THEN "api"
    ELSE IF ~resp.json THEN "decode"
    ELSE "none"

\* a request made without the context
CtxIgnored(c) == TRUE

\* releases.go:48, 59 the request carries ctx: it can only be answered
\* while ctx is not cancelled
CtxAllows(c) == ~c

\* releases.go:59-62, 65-73, 75-78, 84-86: the request fails (transport
\* error, 403, other non-2xx status, JSON decode error)
FetchError ==
    /\ fpc = "request"
    /\ page <= MaxPage
    /\ CtxAllows(cancelled)
    /\ \E resp \in Responses :
          /\ ErrorOf(resp) # "none"
          /\ ferr' = ErrorOf(resp)
          /\ lastResp' = resp
    /\ requests' = Append(requests, page)
    /\ out' = << >>
    /\ fpc' = "done"
    /\ UNCHANGED <<page, all, served, catalog, cancelled, pvars, xvars, ovars>>

\* the caller cancels ctx while the fetch is in its loop
Cancel ==
    /\ fpc = "request"
    /\ ~cancelled
    /\ cancelled' = TRUE
    /\ UNCHANGED <<fpc, page, all, out, ferr, served, catalog, requests, lastResp, pvars, xvars, ovars>>

\* releases.go:59-62 client.Do returns the context's error
FetchCancelled ==
    /\ fpc = "request"
    /\ page <= MaxPage
    /\ cancelled
    /\ requests' = Append(requests, page)
    /\ lastResp' = Response(TRUE, 0, FALSE)
    /\ ferr' = "canceled"
    /\ out' = << >>
    /\ fpc' = "done"
    /\ UNCHANGED <<page, all, served, catalog, cancelled, pvars, xvars, ovars>>

\* releases.go:47-91: one page is served; the last one runs the filter
FetchPage ==
    /\ fpc = "request"
    /\ page <= MaxPage
    /\ CtxAllows(cancelled)
    /\ requests' = Append(requests, page)
    /\ lastResp' = OkResponse
    /\ \E n \in PageLens, pat \in Patterns :
         LET rels == PageOf(pat, n, Len(catalog))
             acc == IF Len(rels) = 0 THEN all ELSE all \o rels
         IN  /\ served' = Append(served, n)
             /\ catalog' = catalog \o rels
             /\ IF ShouldBreak(Len(acc), page)
                THEN LET f == FilterLoop(acc)
                     IN  /\ all' = f.store
                         /\ out' = SubSeq(f.store, 1, f.len)
                         /\ fpc' = "done"
                         /\ page' = page
                ELSE /\ all' = acc
                     /\ page' = page + 1
                     /\ UNCHANGED <<out, fpc>>
    /\ UNCHANGED <<ferr, cancelled, pvars, xvars, ovars>>

FetchNext ==
    \/ FetchPage
    \/ FetchError

\* the fetch under a context that may be cancelled
FetchCtxNext ==
    \/ FetchPage
    \/ FetchError
    \/ Cancel
    \/ FetchCancelled

(***************************************************************************)
(* DownloadAndExtract (unnamed/part_001:64-168)                            *)
(*                                                                         *)
(* A path name is [abs, segs]: whether it starts with "/" and its          *)
(* "/"-separated elements.  The file system maps the canonical path of     *)
(* every existing object (a sequence of elements from the root) to its     *)
(* node: kind, owner-write permission, link target, data.                  *)
(***************************************************************************)
\* bound on the number of tar headers of one archive
MaxEntries == 3

Name(a, segs) == [abs |-> a, segs |-> segs]
Rel(segs) == Name(FALSE, segs)
Abs(segs) == Name(TRUE, segs)

Last(q) == q[Len(q)]
Front(q) == SubSeq(q, 1, Len(q) - 1)

\* the elements that begin with the two characters ".."
DotDotSegs == {"..", "..x"}

\* filepath.Clean: drop empty and "." elements, let ".." cancel the element
\* before it, drop ".." at the root; an empty result is "." or "/"
RECURSIVE CleanSegs(_, _, _)
CleanSegs(segs, acc, abs) ==
    IF Len(segs) = 0 THEN acc
    ELSE LET s == Head(segs)
             next == IF s = "" \/ s = "." THEN acc
                     ELSE IF s = ".."
                          THEN IF Len(acc) > 0 /\ Last(acc) # ".." THEN Front(acc)
                               ELSE IF abs THEN acc
                               ELSE Append(acc, s)
                          ELSE Append(acc, s)
         IN  CleanSegs(Tail(segs), next, abs)

\* a cleaned relative name without elements stands for "."
Clean(nm) == Name(nm.abs, CleanSegs(nm.segs, << >>, nm.abs))

\* part_001:120 strings.HasPrefix(name, "..")
HasDotDotPrefix(nm) == ~nm.abs /\ Len(nm.segs) > 0 /\ nm.segs[1] \in DotDotSegs

\* the sanitization test comparing with ".." instead of testing the prefix
IsRejectedExact(nm) ==
    \/ ~nm.abs /\ nm.segs = << >>
    \/ nm.abs /\ nm.segs = << >>
    \/ ~nm.abs /\ nm.segs = <<"..">>

\* part_001:120 the sanitization test on the cleaned name
IsRejected(nm) ==
    \/ ~nm.abs /\ nm.segs = << >>
    \/ nm.abs /\ nm.segs = << >>
    \/ HasDotDotPrefix(nm)

\* part_001:123 strings.Split(name, "/"): a rooted name splits into "" first
SplitParts(nm) == IF nm.abs THEN <<"">> \o nm.segs ELSE nm.segs

\* part_001:127 filepath.Join(destRoot, name)
DestRoot == <<"d">>
JoinDest(nm) == CleanSegs(DestRoot \o nm.segs, << >>, TRUE)

\* part_001:151-154 the link target written into a symlink
LinkTarget(linkname) ==
    LET link == Clean(linkname)
    IN  IF HasDotDotPrefix(link) /\ Len(link.segs) > 1 /\ link.segs[1] = ".."
        THEN Name(FALSE, Tail(link.segs))
        ELSE link

NoName == Rel(<< >>)
DirNode(w) == [kind |-> "dir", w |-> w, target |-> NoName, data |-> "-"]
FileNode(w, d) == [kind |-> "file", w |-> w, target |-> NoName, data |-> d]
LinkNode(t) == [kind |-> "link", w |-> TRUE, target |-> t, data |-> "-"]

\* the root, the destination root, and a user-writable directory beside it
\* that holds one file
InitFS ==
    (<< >> :> DirNode(FALSE)) @@ (DestRoot :> DirNode(TRUE))
      @@ (<<"o">> :> DirNode(TRUE)) @@ (<<"o", "f">> :> FileNode(TRUE, "old"))

\* Path resolution as the kernel does it: cur is the canonical path of the
\* directory reached, rest the elements still to walk.  follow says whether a
\* symlink in the last place is followed.  The kernel gives up with ELOOP
\* after 40 links: fuel counts them, and seen holds the places where a link
\* was followed, since a walk that follows a link from the same place twice
\* goes round for ever and so runs out of links.
RECURSIVE Walk(_, _, _, _, _, _)
Walk(f, cur, rest, follow, fuel, seen) ==
    IF Len(rest) = 0 THEN [st |-> "ok", path |-> cur, exists |-> TRUE]
    ELSE LET s == Head(rest)
             more == Tail(rest)
             nxt == Append(cur, s)
         IN  IF s = "." \/ s = "" THEN Walk(f, cur, more, follow, fuel, seen)
             ELSE IF s = ".."
                  THEN Walk(f, IF Len(cur) = 0 THEN cur ELSE Front(cur), more,
                            follow, fuel, seen)
             ELSE IF nxt \notin DOMAIN f
                  THEN IF Len(more) = 0
                       THEN [st |-> "ok", path |-> nxt, exists |-> FALSE]
                       ELSE [st |-> "ENOENT", path |-> nxt, exists |-> FALSE]
             ELSE IF f[nxt].kind = "link"
                  THEN IF Len(more) = 0 /\ ~follow
                       THEN [st |-> "ok", path |-> nxt, exists |-> TRUE]
                       ELSE IF fuel = 0 \/ <<nxt, more>> \in seen
                            THEN [st |-> "ELOOP", path |-> nxt, exists |-> FALSE]
                            ELSE Walk(f, IF f[nxt].target.abs THEN << >> ELSE cur,
                                      f[nxt].target.segs \o more, follow, fuel - 1,
                                      seen \cup {<<nxt, more>>})
             ELSE IF f[nxt].kind = "dir" THEN Walk(f, nxt, more, follow, fuel, seen)
             ELSE IF Len(more) = 0
                  THEN [st |-> "ok", path |-> nxt, exists |-> TRUE]
                  ELSE [st |-> "ENOTDIR", path |-> nxt, exists |-> FALSE]

Resolve(f, path, follow) == Walk(f, << >>, path, follow, 40, {})

Done(f) == [fs |-> f, err |-> "none"]
Failed(f, e) == [fs |-> f, err |-> e]

\* create the object node at the place path resolves to, when nothing is
\* there and the directory that holds it is writable
CreateAt(f, r, node) ==
    IF r.st # "ok" THEN Failed(f, r.st)
    ELSE IF r.exists THEN Failed(f, "EEXIST")
    ELSE IF ~f[Front(r.path)].w THEN Failed(f, "EACCES")
    ELSE Done(f @@ (r.path :> node))

\* os.Mkdir
Mkdir(f, path, w) == CreateAt(f, Resolve(f, path, FALSE), DirNode(w))

IsDirAt(f, path, follow) ==
    LET r == Resolve(f, path, follow)
    IN  r.st = "ok" /\ r.exists /\ f[r.path].kind = "dir"

Exists(f, path) ==
    LET r == Resolve(f, path, TRUE)
    IN  r.st = "ok" /\ r.exists

\* os.MkdirAll: succeed on an existing directory, fail on another existing
\* object, else create the parent (with the same mode) and then the directory
RECURSIVE MkdirAll(_, _, _)
MkdirAll(f, path, w) ==
    IF Exists(f, path)
    THEN IF IsDirAt(f, path, TRUE) THEN Done(f) ELSE Failed(f, "ENOTDIR")
    ELSE LET par == IF Len(path) > 1 THEN MkdirAll(f, Front(path), w) ELSE Done(f)
         IN  IF par.err # "none" THEN par
             ELSE LET m == Mkdir(par.fs, path, w)
                  IN  IF m.err = "none" \/ ~IsDirAt(par.fs, path, FALSE) THEN m
                      ELSE Done(par.fs)

\* os.OpenFile(O_CREATE|O_TRUNC|O_WRONLY) followed by io.Copy of the data
WriteFile(f, path, w, d) ==
    LET r == Resolve(f, path, TRUE)
    IN  IF r.st # "ok" THEN Failed(f, r.st)
        ELSE IF ~r.exists THEN CreateAt(f, r, FileNode(w, d))
        ELSE IF f[r.path].kind = "dir" THEN Failed(f, "EISDIR")
        ELSE IF ~f[r.path].w THEN Failed(f, "EACCES")
        ELSE Done([f EXCEPT ![r.path].data = d])

\* os.Symlink
Symlink(f, link, path) == CreateAt(f, Resolve(f, path, FALSE), LinkNode(link))

\* the data of an entry whose bytes end before the size its header declares
Truncated == "cut"

Header(nm, t, ln, w, d) ==
    [name |-> nm, typeflag |-> t, linkname |-> ln, w |-> w, data |-> d]

\* the tar headers the model draws archives from
Headers ==
    { Header(Rel(<<"top", "">>), "dir", NoName, TRUE, "-"),
      Header(Rel(<<"top", "">>), "dir", NoName, FALSE, "-"),
      Header(Rel(<<"top", "l">>), "dir", NoName, TRUE, "-"),
      Header(Rel(<<"top", "..", "..", "o">>), "dir", NoName, TRUE, "-"),
      Header(Rel(<<".">>), "dir", NoName, TRUE, "-"),
      Header(Rel(<<"top", "f">>), "reg", NoName, TRUE, "a"),
      Header(Rel(<<"top", "f">>), "reg", NoName, FALSE, "b"),
      Header(Rel(<<"top", "l", "f">>), "reg", NoName, TRUE, "a"),
      Header(Rel(<<"top", "f">>), "reg", NoName, TRUE, Truncated),
      Header(Rel(<<"..", "..", "o", "f">>), "reg", NoName, TRUE, "a"),
      Header(Rel(<<"..x">>), "reg", NoName, TRUE, "a"),
      Header(Abs(<< >>), "reg", NoName, TRUE, "a"),
      Header(Abs(<<"o", "f">>), "reg", NoName, TRUE, "a"),
      Header(Rel(<<"top", "l">>), "symlink", Abs(<<"o">>), TRUE, "-"),
      Header(Rel(<<"top", "l">>), "symlink", Rel(<<"..", "..", "..", "o">>), TRUE, "-"),
      Header(Rel(<<"top", "f">>), "symlink", Rel(<<"f">>), TRUE, "-"),
      Header(Rel(<<"..", "l">>), "symlink", Abs(<<"o">>), TRUE, "-"),
      Header(Rel(<<"top", "f">>), "other", NoName, TRUE, "-") }

\* the switch with a symlink failure returned like the other failures
ExtractToSymlinkFatal(f, hdr, targetPath) ==
    CASE hdr.typeflag = "dir" ->
           MkdirAll(f, targetPath, hdr.w) @@ [warn |-> 0]
      [] hdr.typeflag = "reg" ->
           LET m == MkdirAll(f, Front(targetPath), TRUE)
           IN  IF m.err # "none" THEN m @@ [warn |-> 0]
               ELSE LET wr == WriteFile(m.fs, targetPath, hdr.w, hdr.data)
                    IN  IF wr.err = "none" /\ hdr.data = Truncated
                        THEN Failed(wr.fs, "copy") @@ [warn |-> 0]
                        ELSE wr @@ [warn |-> 0]
      [] hdr.typeflag = "symlink" ->
           LET m == MkdirAll(f, Front(targetPath), TRUE)
           IN  IF m.err # "none" THEN m @@ [warn |-> 0]
               ELSE Symlink(m.fs, LinkTarget(hdr.linkname), targetPath) @@ [warn |-> 0]
      [] OTHER -> Done(f) @@ [warn |-> 0]

\* part_001:129-160 the switch on hdr.Typeflag; warn counts the logLine
\* calls.  io.Copy fails on an entry whose bytes end early, after the file
\* was created or truncated and the bytes present were written.
ExtractTo(f, hdr, targetPath) ==
    CASE hdr.typeflag = "dir" ->
           MkdirAll(f, targetPath, hdr.w) @@ [warn |-> 0]
      [] hdr.typeflag = "reg" ->
           LET m == MkdirAll(f, Front(targetPath), TRUE)
           IN  IF m.err # "none" THEN m @@ [warn |-> 0]
               ELSE LET wr == WriteFile(m.fs, targetPath, hdr.w, hdr.data)
                    IN  IF wr.err = "none" /\ hdr.data = Truncated
                        THEN Failed(wr.fs, "copy") @@ [warn |-> 0]
                        ELSE wr @@ [warn |-> 0]
      [] hdr.typeflag = "symlink" ->
           LET m == MkdirAll(f, Front(targetPath), TRUE)
           IN  IF m.err # "none" THEN m @@ [warn |-> 0]
               ELSE LET sl == Symlink(m.fs, LinkTarget(hdr.linkname), targetPath)
                    IN  [fs |-> sl.fs, err |-> "none",
                         warn |-> IF sl.err = "none" THEN 0 ELSE 1]
      [] OTHER -> Done(f) @@ [warn |-> 0]


\* part_001:98-101 gzip.NewReader fails on the stream
ExtractGzipError ==
    /\ xpc = "loop"
    /\ archive = << >>
    /\ xerr' = "gzip open"
    /\ xpc' = "ret"
    /\ UNCHANGED <<archive, fs, createdTopFolder, warnings, rpos, fs1, fvars, pvars, ovars>>

\* part_001:108-114 tr.Next fails
ExtractTarError ==
    /\ xpc = "loop"
    /\ xerr' = "read tar"
    /\ xpc' = "ret"
    /\ UNCHANGED <<archive, fs, createdTopFolder, warnings, rpos, fs1, fvars, pvars, ovars>>

\* part_001:108-161 tr.Next yields a header and the loop body handles it
ExtractEntry ==
    /\ xpc = "loop"
    /\ Len(archive) < MaxEntries
    /\ \E hdr \in Headers :
         LET name == Clean(hdr.name)
             parts == SplitParts(name)
         IN  /\ archive' = Append(archive, hdr)
             /\ IF IsRejected(name)
                THEN UNCHANGED <<fs, createdTopFolder, xerr, warnings, xpc>>
                ELSE LET res == ExtractTo(fs, hdr, JoinDest(name))
                     IN  /\ createdTopFolder' =
                               IF createdTopFolder = "" /\ Len(parts) > 0
                               THEN parts[1] ELSE createdTopFolder
                         /\ fs' = res.fs
                         /\ warnings' = warnings + res.warn
                         /\ xerr' = res.err
                         /\ xpc' = IF res.err = "none" THEN "loop" ELSE "ret"
    /\ UNCHANGED <<rpos, fs1, fvars, pvars, ovars>>

\* part_001:109-111, 163-167 tr.Next reports the end of the archive
ExtractEOF ==
    /\ xpc = "loop"
    /\ xerr' = IF createdTopFolder = "" THEN "no top folder" ELSE "none"
    /\ xpc' = "ret"
    /\ UNCHANGED <<archive, fs, createdTopFolder, warnings, rpos, fs1, fvars, pvars, ovars>>

ExtractNext ==
    \/ ExtractEntry
    \/ ExtractEOF
    \/ ExtractTarError
    \/ ExtractGzipError

\* DownloadAndExtract is called again, after a successful call, with the
\* same archive and the same destRoot (part_001:104-105)
ExtractAgain ==
    /\ xpc = "ret"
    /\ xerr = "none"
    /\ fs1' = fs
    /\ rpos' = 1
    /\ createdTopFolder' = ""
    /\ warnings' = 0
    /\ xpc' = "loop2"
    /\ UNCHANGED <<archive, fs, xerr, fvars, pvars, ovars>>

\* part_001:108-161 the loop body of the second call, on the headers the
\* first call read, in the same order
ReExtractEntry ==
    /\ xpc = "loop2"
    /\ rpos <= Len(archive)
    /\ LET hdr == archive[rpos]
           name == Clean(hdr.name)
           parts == SplitParts(name)
       IN  /\ rpos' = rpos + 1
           /\ IF IsRejected(name)
              THEN UNCHANGED <<fs, createdTopFolder, xerr, warnings, xpc>>
              ELSE LET res == ExtractTo(fs, hdr, JoinDest(name))
                   IN  /\ createdTopFolder' =
                             IF createdTopFolder = "" /\ Len(parts) > 0
                             THEN parts[1] ELSE createdTopFolder
                       /\ fs' = res.fs
                       /\ warnings' = warnings + res.warn
                       /\ xerr' = res.err
                       /\ xpc' = IF res.err = "none" THEN "loop2" ELSE "ret2"
    /\ UNCHANGED <<archive, fs1, fvars, pvars, ovars>>

\* part_001:109-111, 163-167 the second call reaches the end of the archive
ReExtractEOF ==
    /\ xpc = "loop2"
    /\ rpos > Len(archive)
    /\ xerr' = IF createdTopFolder = "" THEN "no top folder" ELSE "none"
    /\ xpc' = "ret2"
    /\ UNCHANGED <<archive, fs, createdTopFolder, warnings, rpos, fs1, fvars, pvars, ovars>>

\* a well-formed archive extracted twice
ReExtractNext ==
    \/ ExtractEntry
    \/ ExtractEOF
    \/ ExtractAgain
    \/ ReExtractEntry
    \/ ReExtractEOF

(***************************************************************************)
(* The progress bar of one install (part_001:79-96, ui.go:234-252)         *)
(*                                                                         *)
(* The install goroutine hands functions to fyne.Do, which runs them on    *)
(* the UI goroutine later, in the order they were handed over.  A value    *)
(* given to the bar is a fraction <<numerator, denominator>>.              *)
(***************************************************************************)
\* bound on the lengths (Content-Length, size hint, body) of one download
MaxBytes == 3

Frac(n, d) == <<n, d>>
FracLeq(a, b) == a[1] * b[2] <= b[1] * a[2]
FracEq(a, b) == a[1] * b[2] = b[1] * a[2]

\* the expected total taken from the size hint even when the transport
\* reports a length
ExpectedTotalHintFirst(cl, hint) == IF hint > 0 THEN hint ELSE cl

\* part_001:79-82 the transport's length when positive, else the size hint
ExpectedTotal(cl, hint) == IF cl <= 0 THEN hint ELSE cl

\* ui.go:234-235 the goroutine starts: the bar is set to 0 and shown;
\* part_001:79-82 the response arrives and the expected total is fixed
InstallBegin ==
    /\ gpc = "start"
    /\ uiq' = Append(uiq, "zero")
    /\ contentLen' = ExpectedTotal(respLen, sizeHint)
    /\ gpc' = "read"
    /\ UNCHANGED <<respLen, sizeHint, remaining, bytesRead, bar, fvars, pvars, xvars, uvars>>

\* part_001:91-96 the tee sees a chunk of n bytes: it adds n to the counter
\* and hands update to fyne.Do
ReadChunk ==
    /\ gpc = "read"
    /\ \E n \in 1..remaining :
          /\ bytesRead' = bytesRead + n
          /\ remaining' = remaining - n
    /\ uiq' = Append(uiq, "update")
    /\ UNCHANGED <<gpc, respLen, sizeHint, contentLen, bar, fvars, pvars, xvars, uvars>>

\* ui.go:242-248, 236 DownloadAndExtract returns an error: the error is
\* shown and the bar hidden
InstallFail ==
    /\ gpc = "read"
    /\ uiq' = Append(uiq, "hide")
    /\ gpc' = "done"
    /\ UNCHANGED <<respLen, sizeHint, remaining, contentLen, bytesRead, bar, fvars, pvars, xvars, uvars>>

\* ui.go:249-251, 236 DownloadAndExtract returns nil (the gzip header at
\* least was read): the bar is set to 1.0 and then hidden
InstallSucceed ==
    /\ gpc = "read"
    /\ bytesRead > 0
    /\ uiq' = uiq \o <<"one", "hide">>
    /\ gpc' = "done"
    /\ UNCHANGED <<respLen, sizeHint, remaining, contentLen, bytesRead, bar, fvars, pvars, xvars, uvars>>

\* the UI goroutine runs the oldest queued function; update (part_001:86-90)
\* reads the counter as it is when it runs
UIRun ==
    /\ gpc # "idle"
    /\ Len(uiq) > 0
    /\ uiq' = Tail(uiq)
    /\ bar' = CASE Head(uiq) = "zero" -> Append(bar, Frac(0, 1))
                [] Head(uiq) = "one" -> Append(bar, Frac(1, 1))
                [] Head(uiq) = "update" /\ contentLen > 0 ->
                       Append(bar, Frac(bytesRead, contentLen))
                [] OTHER -> bar
    /\ UNCHANGED <<gpc, respLen, sizeHint, remaining, contentLen, bytesRead, fvars, pvars, xvars, uvars>>

ProgressNext ==
    \/ InstallBegin
    \/ ReadChunk
    \/ InstallFail
    \/ InstallSucceed
    \/ UIRun

(***************************************************************************)
(* The window (ui.go:26-35, 87-315)                                        *)
(*                                                                         *)
(* The handlers of buttons and lists run on the UI goroutine, one at a     *)
(* time; fyne.Do hands a function over to it.  loadAvailable starts a      *)
(* goroutine of its own, and an install runs in another one, which ends    *)
(* with refreshBoth.  These goroutines read and write the package          *)
(* variables without any lock, so each of their statements is a step that  *)
(* can fall between two statements of a handler.  Slice indices are kept   *)
(* as in the source, from 0; element i of a slice is element i + 1 of the  *)
(* sequence.                                                               *)
(***************************************************************************)
\* bounds on the number of loadAvailable goroutines started: in the window
\* as a whole, and where only refreshes run
MaxLoaders == 2
MaxRefreshes == 3
\* bound on the number of installs started
MaxInstalls == 1

TagA == <<"G", "E", "-", "P", "r", "o", "t", "o", "n", "1">>
TagB == <<"G", "E", "-", "P", "r", "o", "t", "o", "n", "2">>
FolderLowerB == <<"g", "e", "-", "p", "r", "o", "t", "o", "n", "2">>
FolderOther == <<"x">>
ProtonGe == <<"p", "r", "o", "t", "o", "n", "-", "g", "e">>

UIRelease(t, n, p) ==
    [tag |-> t, name |-> n, prerelease |-> p, assets |-> <<Asset(NameGeTar, 1, 1)>>]
NoRelease == [tag |-> << >>, name |-> << >>, prerelease |-> FALSE, assets |-> << >>]

\* what FetchAllReleases can return to the window when it succeeds
FetchedReleases ==
    { <<UIRelease(TagA, <<"A">>, FALSE), UIRelease(TagB, <<"B">>, TRUE)>>,
      <<UIRelease(TagB, <<"B">>, TRUE)>> }

HasPrefix(str, prefix) ==
    Len(str) >= Len(prefix) /\ SubSeq(str, 1, Len(prefix)) = prefix

\* ui.go:34 geFolderPattern
MatchesGeFolder(n) ==
    HasPrefix(ToLower(n), GeProton) \/ HasPrefix(ToLower(n), ProtonGe)

\* the characters of the names, in byte order
Alphabet == <<"-", "1", "2", "A", "B", "E", "G", "P", "e", "g", "n", "o", "p", "r", "t", "x">>
Ord(c) == CHOOSE i \in 1..Len(Alphabet) : Alphabet[i] = c

RECURSIVE StrLess(_, _)
StrLess(a, b) ==
    IF Len(a) = 0 THEN Len(b) > 0
    ELSE IF Len(b) = 0 THEN FALSE
    ELSE IF a[1] = b[1] THEN StrLess(Tail(a), Tail(b))
    ELSE Ord(a[1]) < Ord(b[1])

\* slices.Sort on names that are all different
RECURSIVE SortNames(_)
SortNames(S) ==
    IF S = {} THEN << >>
    ELSE LET m == CHOOSE x \in S : \A y \in S \ {x} : StrLess(x, y)
         IN  <<m>> \o SortNames(S \ {m})

\* ui.go:264-276 the sorted names of the directories that match the pattern
InstalledNames(d) == SortNames({n \in d : MatchesGeFolder(n)})

\* ui.go:320, 322 the flag and the separator (the dash written in ASCII)
PreFlag == <<" ", "(", "p", "r", "e", "-", "r", "e", "l", "e", "a", "s", "e", ")">>
Dash == <<" ", "-", " ">>

\* ui.go:317-323
formatReleaseLabel(r) ==
    r.tag \o (IF r.prerelease THEN PreFlag ELSE << >>) \o Dash \o r.name

\* ui.go:294-303 the releases whose tag is no installed name, case ignored
Filtered(rels, inst) ==
    LET installed == {ToLower(inst[i]) : i \in 1..Len(inst)}
    IN  SelectSeq(rels, LAMBDA r : ToLower(r.tag) \notin installed)

\* the new list put after the old one
StoreAppended(old, filtered) == old \o filtered

\* ui.go:304 availableReleases = filtered
StoreReleases(old, filtered) == filtered

\* ui.go:305 make([]string, len(filtered))
BlankLabels(n) == [i \in 1..n |-> << >>]

\* ui.go:306-308
Labels(filtered) == [i \in 1..Len(filtered) |-> formatReleaseLabel(filtered[i])]

InFlight(l) == l.pc \in {"fetch", "filter", "assignReleases", "assignLabels", "fill"}

\* ui.go:283-284 loadAvailable starts its goroutine; alone records whether
\* any other such goroutine runs while this one does
Spawn(ls) ==
    LET busy == \E k \in 1..Len(ls) : InFlight(ls[k])
    IN  Append([k \in 1..Len(ls) |->
                   IF InFlight(ls[k]) THEN [ls[k] EXCEPT !.alone = FALSE] ELSE ls[k]],
               [pc |-> "fetch", rels |-> << >>, filtered |-> << >>, i |-> 0, alone |-> ~busy])

\* ui.go:285-292 FetchAllReleases returns, with the releases or an error
LoaderFetch ==
    /\ panicked = "no"
    /\ \E g \in 1..Len(loaders) :
          /\ loaders[g].pc = "fetch"
          /\ \/ \E rels \in FetchedReleases :
                   loaders' = [loaders EXCEPT ![g].rels = rels, ![g].pc = "filter"]
             \/ loaders' = [loaders EXCEPT ![g].pc = "done"]
    /\ UNCHANGED <<disk, currentInstalled, selectedInstalled, availableReleases, currentAvailable, selectedAvailable, uipc, uii, pendingRemove, ipc, irel, inames, installs, refreshBudget, panicked,
                   fvars, pvars, xvars, gvars>>

\* ui.go:294-303 the goroutine reads currentInstalled and filters
LoaderFilter ==
    /\ panicked = "no"
    /\ \E g \in 1..Len(loaders) :
          /\ loaders[g].pc = "filter"
          /\ loaders' = [loaders EXCEPT
                           ![g].filtered = Filtered(loaders[g].rels, currentInstalled),
                           ![g].rels = << >>,
                           ![g].pc = "assignReleases"]
    /\ UNCHANGED <<disk, currentInstalled, selectedInstalled, availableReleases, currentAvailable, selectedAvailable, uipc, uii, pendingRemove, ipc, irel, inames, installs, refreshBudget, panicked,
                   fvars, pvars, xvars, gvars>>

\* ui.go:304
LoaderAssignReleases ==
    /\ panicked = "no"
    /\ \E g \in 1..Len(loaders) :
          /\ loaders[g].pc = "assignReleases"
          /\ availableReleases' = StoreReleases(availableReleases, loaders[g].filtered)
          /\ loaders' = [loaders EXCEPT ![g].pc = "assignLabels"]
    /\ UNCHANGED <<disk, currentInstalled, selectedInstalled, currentAvailable, selectedAvailable, uipc, uii, pendingRemove, ipc, irel, inames, installs, refreshBudget, panicked,
                   fvars, pvars, xvars, gvars>>

\* ui.go:305
LoaderAssignLabels ==
    /\ panicked = "no"
    /\ \E g \in 1..Len(loaders) :
          /\ loaders[g].pc = "assignLabels"
          /\ currentAvailable' = BlankLabels(Len(loaders[g].filtered))
          /\ loaders' = [loaders EXCEPT ![g].pc = "fill", ![g].i = 0]
    /\ UNCHANGED <<disk, currentInstalled, selectedInstalled, availableReleases, selectedAvailable, uipc, uii, pendingRemove, ipc, irel, inames, installs, refreshBudget, panicked,
                   fvars, pvars, xvars, gvars>>

\* ui.go:306-308 one iteration: currentAvailable[i] = formatReleaseLabel(r)
\* writes into the slice the package variable holds at that moment
LoaderFill ==
    /\ panicked = "no"
    /\ \E g \in 1..Len(loaders) :
          LET l == loaders[g]
          IN  /\ l.pc = "fill"
              /\ l.i < Len(l.filtered)
              /\ IF l.i >= Len(currentAvailable)
                 THEN /\ panicked' = "loadAvailable"
                      /\ UNCHANGED <<currentAvailable, loaders>>
                 ELSE /\ currentAvailable' =
                            [currentAvailable EXCEPT
                               ![l.i + 1] = formatReleaseLabel(l.filtered[l.i + 1])]
                      /\ loaders' = [loaders EXCEPT ![g].i = l.i + 1]
                      /\ UNCHANGED panicked
    /\ UNCHANGED <<disk, currentInstalled, selectedInstalled, availableReleases, selectedAvailable, uipc, uii, pendingRemove, ipc, irel, inames, installs, refreshBudget,
                   fvars, pvars, xvars, gvars>>

\* ui.go:309 the loop is over: the closing function goes to the UI goroutine
LoaderNotify ==
    /\ panicked = "no"
    /\ \E g \in 1..Len(loaders) :
          /\ loaders[g].pc = "fill"
          /\ loaders[g].i >= Len(loaders[g].filtered)
          /\ loaders' = [loaders EXCEPT ![g].pc = "queued"]
    /\ UNCHANGED <<disk, currentInstalled, selectedInstalled, availableReleases, currentAvailable, selectedAvailable, uipc, uii, pendingRemove, ipc, irel, inames, installs, refreshBudget, panicked,
                   fvars, pvars, xvars, gvars>>

\* ui.go:309-313 the UI goroutine runs the closing function; the goroutine's
\* local variables are gone by then
LoaderCallback ==
    /\ panicked = "no"
    /\ uipc = "idle"
    /\ \E g \in 1..Len(loaders) :
          /\ loaders[g].pc = "queued"
          /\ loaders' = [loaders EXCEPT ![g].pc = "done", ![g].filtered = << >>, ![g].i = 0]
    /\ selectedAvailable' = -1
    /\ UNCHANGED <<disk, currentInstalled, selectedInstalled, availableReleases, currentAvailable, uipc, uii, pendingRemove, ipc, irel, inames, installs, refreshBudget, panicked,
                   fvars, pvars, xvars, gvars>>

\* ui.go:108 a row of the available list is selected
SelectAvailable ==
    /\ panicked = "no"
    /\ uipc = "idle"
    /\ \E id \in 0..(Len(currentAvailable) - 1) : selectedAvailable' = id
    /\ UNCHANGED <<disk, currentInstalled, selectedInstalled, availableReleases, currentAvailable, loaders, uipc, uii, pendingRemove, ipc, irel, inames, installs, refreshBudget, panicked,
                   fvars, pvars, xvars, gvars>>

\* ui.go:102 a row of the installed list is selected
SelectInstalled ==
    /\ panicked = "no"
    /\ uipc = "idle"
    /\ \E id \in 0..(Len(currentInstalled) - 1) : selectedInstalled' = id
    /\ UNCHANGED <<disk, currentInstalled, availableReleases, currentAvailable, selectedAvailable, loaders, uipc, uii, pendingRemove, ipc, irel, inames, installs, refreshBudget, panicked,
                   fvars, pvars, xvars, gvars>>

\* ui.go:98 the available list asks for its length and goes on to a row
AvailableListLength ==
    /\ panicked = "no"
    /\ uipc = "idle"
    /\ \E i \in 0..(Len(currentAvailable) - 1) : uii' = i
    /\ uipc' = "availableItem"
    /\ UNCHANGED <<disk, currentInstalled, selectedInstalled, availableReleases, currentAvailable, selectedAvailable, loaders, pendingRemove, ipc, irel, inames, installs, refreshBudget, panicked,
                   fvars, pvars, xvars, gvars>>

\* ui.go:100 the row's label is read: currentAvailable[i]
AvailableListItem ==
    /\ panicked = "no"
    /\ uipc = "availableItem"
    /\ IF uii >= Len(currentAvailable)
       THEN panicked' = "availableList" /\ UNCHANGED uipc
       ELSE uipc' = "idle" /\ UNCHANGED panicked
    /\ UNCHANGED <<disk, currentInstalled, selectedInstalled, availableReleases, currentAvailable, selectedAvailable, loaders, uii, pendingRemove, ipc, irel, inames, installs, refreshBudget,
                   fvars, pvars, xvars, gvars>>

\* ui.go:93
InstalledListLength ==
    /\ panicked = "no"
    /\ uipc = "idle"
    /\ \E i \in 0..(Len(currentInstalled) - 1) : uii' = i
    /\ uipc' = "installedItem"
    /\ UNCHANGED <<disk, currentInstalled, selectedInstalled, availableReleases, currentAvailable, selectedAvailable, loaders, pendingRemove, ipc, irel, inames, installs, refreshBudget, panicked,
                   fvars, pvars, xvars, gvars>>

\* ui.go:95 currentInstalled[i]
InstalledListItem ==
    /\ panicked = "no"
    /\ uipc = "installedItem"
    /\ IF uii >= Len(currentInstalled)
       THEN panicked' = "installedList" /\ UNCHANGED uipc
       ELSE uipc' = "idle" /\ UNCHANGED panicked
    /\ UNCHANGED <<disk, currentInstalled, selectedInstalled, availableReleases, currentAvailable, selectedAvailable, loaders, uii, pendingRemove, ipc, irel, inames, installs, refreshBudget,
                   fvars, pvars, xvars, gvars>>

\* ui.go:166-169, 192-193 a refresh button: loadInstalled, then loadAvailable
RefreshTap ==
    /\ panicked = "no"
    /\ uipc = "idle"
    /\ refreshBudget > 0
    /\ currentInstalled' = InstalledNames(disk)
    /\ selectedInstalled' = -1
    /\ loaders' = Spawn(loaders)
    /\ refreshBudget' = refreshBudget - 1
    /\ UNCHANGED <<disk, availableReleases, currentAvailable, selectedAvailable, uipc, uii, pendingRemove, ipc, irel, inames, installs, panicked,
                   fvars, pvars, xvars, gvars>>

\* ui.go:216-221 the install button: the selection is read and tested
InstallTapCheck ==
    /\ panicked = "no"
    /\ uipc = "idle"
    /\ installs < MaxInstalls
    /\ ipc \in {"none", "done"}
    /\ IF selectedAvailable < 0 \/ selectedAvailable >= Len(availableReleases)
       THEN UNCHANGED <<uipc, uii>>
       ELSE uipc' = "installRead" /\ uii' = selectedAvailable
    /\ UNCHANGED <<disk, currentInstalled, selectedInstalled, availableReleases, currentAvailable, selectedAvailable, loaders, pendingRemove, ipc, irel, inames, installs, refreshBudget, panicked,
                   fvars, pvars, xvars, gvars>>

\* ui.go:222-234 rel := availableReleases[i]; the install goroutine starts
InstallTapRead ==
    /\ panicked = "no"
    /\ uipc = "installRead"
    /\ IF uii >= Len(availableReleases)
       THEN /\ panicked' = "installBtn"
            /\ UNCHANGED <<uipc, ipc, irel, installs>>
       ELSE /\ uipc' = "idle"
            /\ IF \E res \in PickLinuxTarball(availableReleases[uii + 1].assets) : res.ok
               THEN /\ ipc' = "download"
                    /\ irel' = availableReleases[uii + 1]
                    /\ installs' = installs + 1
               ELSE UNCHANGED <<ipc, irel, installs>>
            /\ UNCHANGED panicked
    /\ UNCHANGED <<disk, currentInstalled, selectedInstalled, availableReleases, currentAvailable, selectedAvailable, loaders, uii, pendingRemove, inames, refreshBudget,
                   fvars, pvars, xvars, gvars>>

\* ui.go:239-248 DownloadAndExtract returns: the release's folder is on disk,
\* or the install failed
InstallDownload ==
    /\ panicked = "no"
    /\ ipc = "download"
    /\ \E ok \in BOOLEAN :
          IF ok THEN disk' = disk \cup {irel.tag} /\ ipc' = "readdir"
          ELSE disk' = disk /\ ipc' = "done"
    /\ UNCHANGED <<currentInstalled, selectedInstalled, availableReleases, currentAvailable, selectedAvailable, loaders, uipc, uii, pendingRemove, irel, inames, installs, refreshBudget, panicked,
                   fvars, pvars, xvars, gvars>>

\* ui.go:251, 264-276 refreshBoth in the install goroutine: loadInstalled
\* reads the directory
InstallReadDir ==
    /\ panicked = "no"
    /\ ipc = "readdir"
    /\ inames' = InstalledNames(disk)
    /\ ipc' = "assign"
    /\ UNCHANGED <<disk, currentInstalled, selectedInstalled, availableReleases, currentAvailable, selectedAvailable, loaders, uipc, uii, pendingRemove, irel, installs, panicked, refreshBudget,
                   fvars, pvars, xvars, gvars>>

\* ui.go:277-278, 168 loadInstalled stores the names and clears the
\* selection, then loadAvailable starts its goroutine
InstallAssign ==
    /\ panicked = "no"
    /\ ipc = "assign"
    /\ refreshBudget > 0
    /\ currentInstalled' = inames
    /\ selectedInstalled' = -1
    /\ loaders' = Spawn(loaders)
    /\ refreshBudget' = refreshBudget - 1
    /\ ipc' = "done"
    /\ UNCHANGED <<disk, availableReleases, currentAvailable, selectedAvailable, uipc, uii, pendingRemove, irel, inames, installs, panicked,
                   fvars, pvars, xvars, gvars>>

\* ui.go:195-200 the remove button: the selection is read and tested
RemoveTapCheck ==
    /\ panicked = "no"
    /\ uipc = "idle"
    /\ pendingRemove = << >>
    /\ IF selectedInstalled < 0 \/ selectedInstalled >= Len(currentInstalled)
       THEN UNCHANGED <<uipc, uii>>
       ELSE uipc' = "removeRead" /\ uii' = selectedInstalled
    /\ UNCHANGED <<disk, currentInstalled, selectedInstalled, availableReleases, currentAvailable, selectedAvailable, loaders, pendingRemove, ipc, irel, inames, installs, refreshBudget, panicked,
                   fvars, pvars, xvars, gvars>>

\* ui.go:201-213 name := currentInstalled[i]; the confirm dialog opens
RemoveTapRead ==
    /\ panicked = "no"
    /\ uipc = "removeRead"
    /\ IF uii >= Len(currentInstalled)
       THEN panicked' = "removeBtn" /\ UNCHANGED <<uipc, pendingRemove>>
       ELSE /\ pendingRemove' = currentInstalled[uii + 1]
            /\ uipc' = "idle"
            /\ UNCHANGED panicked
    /\ UNCHANGED <<disk, currentInstalled, selectedInstalled, availableReleases, currentAvailable, selectedAvailable, loaders, uii, ipc, irel, inames, installs, refreshBudget,
                   fvars, pvars, xvars, gvars>>

\* ui.go:202-212 the dialog is answered: on yes the folder is removed and
\* refreshBoth runs
RemoveConfirm ==
    /\ panicked = "no"
    /\ uipc = "idle"
    /\ pendingRemove # << >>
    /\ refreshBudget > 0
    /\ pendingRemove' = << >>
    /\ \E ok \in BOOLEAN :
          IF ok
          THEN /\ disk' = disk \ {pendingRemove}
               /\ currentInstalled' = InstalledNames(disk')
               /\ selectedInstalled' = -1
               /\ loaders' = Spawn(loaders)
               /\ refreshBudget' = refreshBudget - 1
          ELSE UNCHANGED <<disk, currentInstalled, selectedInstalled, loaders, refreshBudget>>
    /\ UNCHANGED <<availableReleases, currentAvailable, selectedAvailable, uipc, uii, ipc, irel, inames, installs, panicked,
                   fvars, pvars, xvars, gvars>>

UINext ==
    \/ LoaderFetch
    \/ LoaderFilter
    \/ LoaderAssignReleases
    \/ LoaderAssignLabels
    \/ LoaderFill
    \/ LoaderNotify
    \/ LoaderCallback
    \/ SelectAvailable
    \/ SelectInstalled
    \/ AvailableListLength
    \/ AvailableListItem
    \/ InstalledListLength
    \/ InstalledListItem
    \/ RefreshTap
    \/ InstallTapCheck
    \/ InstallTapRead
    \/ InstallDownload
    \/ InstallReadDir
    \/ InstallAssign
    \/ RemoveTapCheck
    \/ RemoveTapRead
    \/ RemoveConfirm

(***************************************************************************)
(* Specifications: one per operation, the other operations at rest         *)
(***************************************************************************)
InitFetch ==
    /\ fpc = "request" /\ page = 1 /\ all = << >> /\ out = << >>
    /\ ferr = "none" /\ served = << >> /\ catalog = << >>
    /\ requests = << >> /\ lastResp = NoResponse /\ cancelled = FALSE
    /\ ppc = "idle" /\ assets = << >> /\ picked = NoAsset /\ found = FALSE
    /\ xpc = "idle" /\ archive = << >> /\ fs = InitFS
    /\ createdTopFolder = "" /\ xerr = "none" /\ warnings = 0
    /\ rpos = 0 /\ fs1 = InitFS
    /\ gpc = "idle" /\ respLen = -1 /\ sizeHint = 0 /\ remaining = 0
    /\ contentLen = 0 /\ bytesRead = 0 /\ uiq = << >> /\ bar = << >>
    /\ disk = {} /\ currentInstalled = << >> /\ selectedInstalled = -1
    /\ availableReleases = << >> /\ currentAvailable = << >>
    /\ selectedAvailable = -1 /\ loaders = << >> /\ uipc = "off" /\ uii = 0
    /\ pendingRemove = << >> /\ ipc = "none" /\ irel = NoRelease
    /\ inames = << >> /\ installs = 0 /\ refreshBudget = 0 /\ panicked = "no"

InitPick ==
    /\ ppc = "call" /\ assets \in ShortAssetLists \cup LongAssetLists
    /\ picked = NoAsset /\ found = FALSE
    /\ fpc = "idle" /\ page = 1 /\ all = << >> /\ out = << >>
    /\ ferr = "none" /\ served = << >> /\ catalog = << >>
    /\ requests = << >> /\ lastResp = NoResponse /\ cancelled = FALSE
    /\ xpc = "idle" /\ archive = << >> /\ fs = InitFS
    /\ createdTopFolder = "" /\ xerr = "none" /\ warnings = 0
    /\ rpos = 0 /\ fs1 = InitFS
    /\ gpc = "idle" /\ respLen = -1 /\ sizeHint = 0 /\ remaining = 0
    /\ contentLen = 0 /\ bytesRead = 0 /\ uiq = << >> /\ bar = << >>
    /\ disk = {} /\ currentInstalled = << >> /\ selectedInstalled = -1
    /\ availableReleases = << >> /\ currentAvailable = << >>
    /\ selectedAvailable = -1 /\ loaders = << >> /\ uipc = "off" /\ uii = 0
    /\ pendingRemove = << >> /\ ipc = "none" /\ irel = NoRelease
    /\ inames = << >> /\ installs = 0 /\ refreshBudget = 0 /\ panicked = "no"

InitExtract ==
    /\ xpc = "loop" /\ archive = << >> /\ fs = InitFS
    /\ createdTopFolder = "" /\ xerr = "none" /\ warnings = 0
    /\ rpos = 0 /\ fs1 = InitFS
    /\ fpc = "idle" /\ page = 1 /\ all = << >> /\ out = << >>
    /\ ferr = "none" /\ served = << >> /\ catalog = << >>
    /\ requests = << >> /\ lastResp = NoResponse /\ cancelled = FALSE
    /\ ppc = "idle" /\ assets = << >> /\ picked = NoAsset /\ found = FALSE
    /\ gpc = "idle" /\ respLen = -1 /\ sizeHint = 0 /\ remaining = 0
    /\ contentLen = 0 /\ bytesRead = 0 /\ uiq = << >> /\ bar = << >>
    /\ disk = {} /\ currentInstalled = << >> /\ selectedInstalled = -1
    /\ availableReleases = << >> /\ currentAvailable = << >>
    /\ selectedAvailable = -1 /\ loaders = << >> /\ uipc = "off" /\ uii = 0
    /\ pendingRemove = << >> /\ ipc = "none" /\ irel = NoRelease
    /\ inames = << >> /\ installs = 0 /\ refreshBudget = 0 /\ panicked = "no"

SpecFetch == InitFetch /\ [][FetchNext]_vars

SpecFetchCtx == InitFetch /\ [][FetchCtxNext]_vars

NextPick == PickCall

SpecPick == InitPick /\ [][NextPick]_vars

SpecExtract == InitExtract /\ [][ExtractNext]_vars

SpecReExtract == InitExtract /\ [][ReExtractNext]_vars

\* a response whose Content-Length is positive carries a body of that length;
\* without it the body is as long as the server makes it
InitProgress ==
    /\ gpc = "start"
    /\ respLen \in {-1} \cup (0..MaxBytes)
    /\ sizeHint \in 0..MaxBytes
    /\ remaining \in 1..MaxBytes
    /\ respLen > 0 => remaining = respLen
    /\ respLen # 0
    /\ contentLen = 0 /\ bytesRead = 0 /\ uiq = << >> /\ bar = << >>
    /\ fpc = "idle" /\ page = 1 /\ all = << >> /\ out = << >>
    /\ ferr = "none" /\ served = << >> /\ catalog = << >>
    /\ requests = << >> /\ lastResp = NoResponse /\ cancelled = FALSE
    /\ ppc = "idle" /\ assets = << >> /\ picked = NoAsset /\ found = FALSE
    /\ xpc = "idle" /\ archive = << >> /\ fs = InitFS
    /\ createdTopFolder = "" /\ xerr = "none" /\ warnings = 0
    /\ rpos = 0 /\ fs1 = InitFS
    /\ disk = {} /\ currentInstalled = << >> /\ selectedInstalled = -1
    /\ availableReleases = << >> /\ currentAvailable = << >>
    /\ selectedAvailable = -1 /\ loaders = << >> /\ uipc = "off" /\ uii = 0
    /\ pendingRemove = << >> /\ ipc = "none" /\ irel = NoRelease
    /\ inames = << >> /\ installs = 0 /\ refreshBudget = 0 /\ panicked = "no"

SpecProgress == InitProgress /\ [][ProgressNext]_vars

\* ui.go:87-89, 255-256 the window after Build: the install directory holds
\* some folders, loadInstalled has run and the first loadAvailable goroutine
\* has started
InitUI ==
    /\ disk \in {{}, {FolderLowerB, FolderOther}}
    /\ currentInstalled = InstalledNames(disk) /\ selectedInstalled = -1
    /\ availableReleases = << >> /\ currentAvailable = << >>
    /\ selectedAvailable = -1 /\ loaders = Spawn(<< >>) /\ uipc = "idle" /\ uii = 0
    /\ pendingRemove = << >> /\ ipc = "none" /\ irel = NoRelease
    /\ inames = << >> /\ installs = 0 /\ refreshBudget = MaxLoaders - 1 /\ panicked = "no"
    /\ gpc = "idle" /\ respLen = -1 /\ sizeHint = 0 /\ remaining = 0
    /\ contentLen = 0 /\ bytesRead = 0 /\ uiq = << >> /\ bar = << >>
    /\ fpc = "idle" /\ page = 1 /\ all = << >> /\ out = << >>
    /\ ferr = "none" /\ served = << >> /\ catalog = << >>
    /\ requests = << >> /\ lastResp = NoResponse /\ cancelled = FALSE
    /\ ppc = "idle" /\ assets = << >> /\ picked = NoAsset /\ found = FALSE
    /\ xpc = "idle" /\ archive = << >> /\ fs = InitFS
    /\ createdTopFolder = "" /\ xerr = "none" /\ warnings = 0
    /\ rpos = 0 /\ fs1 = InitFS

SpecUI == InitUI /\ [][UINext]_vars

\* the refreshes alone: the refresh buttons and the loadAvailable goroutines
RefreshNext ==
    \/ RefreshTap
    \/ LoaderFetch
    \/ LoaderFilter
    \/ LoaderAssignReleases
    \/ LoaderAssignLabels
    \/ LoaderFill
    \/ LoaderNotify
    \/ LoaderCallback

InitRefresh ==
    /\ disk \in {{}, {FolderLowerB, FolderOther}}
    /\ currentInstalled = InstalledNames(disk) /\ selectedInstalled = -1
    /\ availableReleases = << >> /\ currentAvailable = << >>
    /\ selectedAvailable = -1 /\ loaders = Spawn(<< >>) /\ uipc = "idle" /\ uii = 0
    /\ pendingRemove = << >> /\ ipc = "none" /\ irel = NoRelease
    /\ inames = << >> /\ installs = 0 /\ refreshBudget = MaxRefreshes - 1 /\ panicked = "no"
    /\ gpc = "idle" /\ respLen = -1 /\ sizeHint = 0 /\ remaining = 0
    /\ contentLen = 0 /\ bytesRead = 0 /\ uiq = << >> /\ bar = << >>
    /\ fpc = "idle" /\ page = 1 /\ all = << >> /\ out = << >>
    /\ ferr = "none" /\ served = << >> /\ catalog = << >>
    /\ requests = << >> /\ lastResp = NoResponse /\ cancelled = FALSE
    /\ ppc = "idle" /\ assets = << >> /\ picked = NoAsset /\ found = FALSE
    /\ xpc = "idle" /\ archive = << >> /\ fs = InitFS
    /\ createdTopFolder = "" /\ xerr = "none" /\ warnings = 0
    /\ rpos = 0 /\ fs1 = InitFS

SpecRefresh == InitRefresh /\ [][RefreshNext]_vars

(***************************************************************************)
(* Claims                                                                  *)
(***************************************************************************)
IsUnderDestRoot(p) ==
    Len(p) >= Len(DestRoot) /\ SubSeq(p, 1, Len(DestRoot)) = DestRoot

\* C1: DownloadAndExtract never creates or modifies a file or directory
\* whose resolved location lies outside destRoot, also when an earlier
\* symlink entry is a path component of a later entry.
C1_NothingOutsideDestRoot ==
    \A p \in (DOMAIN fs) \cup (DOMAIN InitFS) :
        ~IsUnderDestRoot(p) =>
            /\ p \in DOMAIN fs
            /\ p \in DOMAIN InitFS
            /\ fs[p] = InitFS[p]

\* the cleaned name is ".", "/" or begins with ".."
CleansToRejected(hdr) ==
    LET nm == Clean(hdr.name)
    IN  \/ nm = Rel(<< >>)
        \/ nm = Abs(<< >>)
        \/ ~nm.abs /\ Len(nm.segs) > 0 /\ nm.segs[1] \in DotDotSegs

\* C2: an entry whose cleaned name is ".", "/" or begins with ".." is
\* skipped: the step that reads it changes no file, does not set the top
\* folder, raises no error and no warning, and leaves the loop running.
C2_RejectedEntrySkipped ==
    [][ (Len(archive') = Len(archive) + 1 /\ CleansToRejected(Last(archive')))
          => /\ fs' = fs
             /\ createdTopFolder' = createdTopFolder
             /\ xerr' = "none"
             /\ warnings' = warnings
             /\ xpc' = "loop" ]_vars

\* a rejected entry came first and a later entry was still extracted
C2_Witness ==
    /\ Len(archive) >= 2
    /\ archive[1].name = Rel(<<"..", "..", "o", "f">>)
    /\ CleansToRejected(archive[1])
    /\ ~CleansToRejected(archive[2])
    /\ fs # InitFS
    /\ createdTopFolder = "top"
    /\ xerr = "none"

RECURSIVE SumSeq(_)
SumSeq(q) == IF Len(q) = 0 THEN 0 ELSE q[1] + SumSeq(Tail(q))

\* the API honoured per_page: no page served was longer than perPage
ServedInPages == \A i \in 1..Len(served) : served[i] <= perPage

FetchReturned == fpc = "done" /\ ferr = "none"

\* C3 as stated: for an API serving totalItems in pages of 100,
\* FetchAllReleases issues exactly ceil(totalItems / 100) requests and
\* accumulates exactly totalItems releases.
C3_CeilRequests ==
    (FetchReturned /\ ServedInPages) =>
        /\ Len(served) = (SumSeq(served) + perPage - 1) \div perPage
        /\ Len(all) = SumSeq(served)

\* C3 as amended: it issues exactly floor(totalItems / 100) + 1 requests:
\* every full page and then the short or empty page that ends the listing,
\* which is requested too; it accumulates exactly totalItems releases.
C3_FloorPlusOneRequests ==
    (FetchReturned /\ ServedInPages) =>
        /\ \A i \in 1..(Len(served) - 1) : served[i] = perPage
        /\ Last(served) < perPage
        /\ Len(served) = (SumSeq(served) \div perPage) + 1
        /\ page = Len(served)
        /\ Len(all) = SumSeq(served)
        /\ Len(catalog) = SumSeq(served)

\* a total that is an exact multiple of 100, ended by an empty page
C3_Witness ==
    /\ FetchReturned
    /\ served = <<perPage, perPage, 0>>
    /\ Len(all) = 2 * perPage

\* C4: the fetch stops right after the first page shorter than 100 items
\* (an empty page included), requests page N+1 only if page N had at least
\* 100 items, and the page counter starts at 1 and grows by 1 per request.
C4_StopsAfterShortPage ==
    /\ fpc = "request" => page = Len(served) + 1
    /\ FetchReturned => page = Len(served) /\ Last(served) < perPage
    /\ \A i \in 1..(Len(served) - 1) : served[i] >= perPage

\* C5: no release with draft = true is in the returned sequence.
C5_NoDraftReturned ==
    FetchReturned => \A i \in 1..Len(out) : ~out[i].draft

\* drafts were served, and releases were returned
C5_Witness ==
    /\ FetchReturned
    /\ Len(out) > 0
    /\ \E i \in 1..Len(catalog) : catalog[i].draft /\ Len(catalog[i].assets) > 0

HasTarGzAsset(r) ==
    \E k \in 1..Len(r.assets) : HasSuffix(ToLower(r.assets[k].name), TarGz)

\* C6: a fetched non-draft release is returned if and only if
\* PickLinuxTarball finds an asset for it, if and only if one of its asset
\* names ends with ".tar.gz" whatever the case.
C6_ReturnedIffTarball ==
    FetchReturned =>
        LET returned == {out[j] : j \in 1..Len(out)}
        IN  \A r \in {catalog[i] : i \in 1..Len(catalog)} :
                ~r.draft =>
                    /\ (r \in returned) <=> HasTarGzAsset(r)
                    /\ (r \in returned) <=> (\A res \in PickLinuxTarball(r.assets) : res.ok)

\* a release with an upper-case tarball name was returned and one without
\* any tarball was left out
C6_Witness ==
    /\ FetchReturned
    /\ \E j \in 1..Len(out) : Last(out[j].assets).name = NameBuildTarUpper
    /\ \E i \in 1..Len(catalog) :
          /\ ~catalog[i].draft
          /\ ~HasTarGzAsset(catalog[i])
          /\ Len(catalog[i].assets) > 0
          /\ \A j \in 1..Len(out) : out[j] # catalog[i]

Survives(r) == ~r.draft /\ HasTarGzAsset(r)

\* C7: the returned sequence is the subsequence of the concatenated pages
\* made of the surviving releases, in order, none duplicated or altered.
C7_OrderPreserved ==
    FetchReturned => out = SelectSeq(catalog, Survives)

\* two pages were served, some releases were dropped and some returned
C7_Witness ==
    /\ FetchReturned
    /\ Len(served) >= 2
    /\ Len(out) > perPage
    /\ Len(out) < Len(catalog)
    /\ ~Survives(catalog[1])

InTier1(a) ==
    /\ HasSuffix(ToLower(a.name), TarGz)
    /\ Contains(ToLower(a.name), GeProton)

InTier2(a) == HasSuffix(ToLower(a.name), TarGz)

AssetSet == {assets[i] : i \in 1..Len(assets)}

\* C8: PickLinuxTarball returns a tier-1 asset whenever there is one, a
\* tier-2 asset only when there is no tier-1 asset, and found = false
\* exactly when no asset name ends with ".tar.gz".
C8_TierOrder ==
    ppc = "ret" =>
        /\ found <=> (\E a \in AssetSet : InTier2(a))
        /\ found => picked \in AssetSet /\ InTier2(picked)
        /\ (\E a \in AssetSet : InTier1(a)) => InTier1(picked)

\* a tier-1 asset was returned although a tier-2-only asset is larger
C8_Witness ==
    /\ ppc = "ret"
    /\ found
    /\ InTier1(picked)
    /\ \E a \in AssetSet : InTier2(a) /\ ~InTier1(a) /\ a.size > picked.size

WinningTier ==
    IF \E a \in AssetSet : InTier1(a)
    THEN {a \in AssetSet : InTier1(a)}
    ELSE {a \in AssetSet : InTier2(a)}

\* C9: within the winning tier PickLinuxTarball returns an asset of maximal
\* size, and among several of that size the first of the input sequence,
\* for candidate lists of every length.
C9_FirstOfMaximalSize ==
    (ppc = "ret" /\ found) =>
        /\ picked \in WinningTier
        /\ \A a \in WinningTier : a.size <= picked.size
        /\ \A a \in WinningTier : a.size = picked.size => picked.url <= a.url

PassesSanitization(hdr) == ~CleansToRejected(hdr)

FirstPassing ==
    LET i == CHOOSE k \in 1..Len(archive) :
                 /\ PassesSanitization(archive[k])
                 /\ \A j \in 1..(k - 1) : ~PassesSanitization(archive[j])
    IN  Clean(archive[i].name)

\* C10: over a structurally valid archive DownloadAndExtract returns the
\* "no top folder" error exactly when no entry passes sanitization;
\* otherwise the top folder is the first path segment of the first entry
\* that passed sanitization.
C10_TopFolder ==
    (xpc = "ret" /\ xerr \in {"none", "no top folder"}) =>
        /\ xerr = "no top folder"
              <=> (\A k \in 1..Len(archive) : ~PassesSanitization(archive[k]))
        /\ xerr = "none" => createdTopFolder = FirstPassing.segs[1]

\* the body has been read to its end and every queued function has run
StreamConsumed == gpc \in {"read", "done"} /\ remaining = 0 /\ uiq = << >>

\* C11: within one install whose expected total is known (a positive
\* Content-Length, else a positive size hint) the values given to the
\* progress bar never decrease, and the last value given once the stream is
\* fully consumed is exactly 1.0.
C11_MonotoneEndingAtOne ==
    (gpc \in {"read", "done"} /\ contentLen > 0) =>
        /\ \A i, j \in 1..Len(bar) : i < j => FracLeq(bar[i], bar[j])
        /\ StreamConsumed => Len(bar) > 0 /\ FracEq(Last(bar), Frac(1, 1))

\* the expected total is the true length of the body: the transport reported
\* it, or it did not and the size hint is that length
LengthAccurate == respLen > 0 \/ sizeHint = bytesRead + remaining

\* C11 as amended: when the expected total is known and is the true length
\* of the response body, the values given to the progress bar never
\* decrease, none exceeds 1.0, and the last value given once the stream is
\* fully consumed is exactly 1.0.
C11_MonotoneWhenLengthAccurate ==
    (gpc \in {"read", "done"} /\ LengthAccurate) =>
        /\ contentLen = bytesRead + remaining
        /\ \A i, j \in 1..Len(bar) : i < j => FracLeq(bar[i], bar[j])
        /\ \A i \in 1..Len(bar) : FracLeq(bar[i], Frac(1, 1))
        /\ StreamConsumed => Len(bar) > 0 /\ FracEq(Last(bar), Frac(1, 1))

\* the length came from the size hint, the body was read in several chunks,
\* the bar went through a proper fraction and the install succeeded
C11_Witness ==
    /\ gpc = "done"
    /\ respLen = -1
    /\ sizeHint = MaxBytes
    /\ StreamConsumed
    /\ Len(bar) >= 4
    /\ \E i \in 1..Len(bar) : bar[i][1] > 0 /\ bar[i][1] < bar[i][2]
    /\ bar[Len(bar) - 1] = Frac(MaxBytes, MaxBytes)
    /\ Last(bar) = Frac(1, 1)

\* C12: extracting the same well-formed archive twice in succession into
\* the same destRoot returns success both times, and the file tree after
\* the second extraction equals the tree after the first, also for regular
\* files whose declared mode has no owner write permission.
C12_ReExtractSameTree ==
    xpc = "ret2" => xerr = "none" /\ fs = fs1

\* the request ended in a transport error, a status outside 2xx or a body
\* that does not decode
FailedOutcome(r) == r.neterr \/ r.status < 200 \/ r.status > 299 \/ ~r.json

\* C13: a page request that ends in a transport error, a 403, another
\* non-2xx status or a JSON decode error makes the fetch return that error
\* with no releases; 403 gives the rate-limit error and not the generic API
\* error; no page is requested twice and none after the fetch has returned.
C13_ErrorEndsFetch ==
    [][ /\ Len(requests') > Len(requests) =>
              /\ requests' = Append(requests, page)
              /\ \A i \in 1..Len(requests) : requests[i] < page
              /\ FailedOutcome(lastResp') =>
                    /\ fpc' = "done"
                    /\ out' = << >>
                    /\ served' = served
                    /\ ferr' = IF lastResp'.neterr THEN "transport"
                               ELSE IF lastResp'.status = 403 THEN "ratelimit"
                               ELSE IF lastResp'.status \notin 200..299 THEN "api"
                               ELSE "decode"
        /\ fpc = "done" => UNCHANGED fvars ]_vars

\* two full pages were accumulated, then the third request was answered
\* with 403: the rate-limit error is returned and no release
C13_Witness ==
    /\ fpc = "done"
    /\ requests = <<1, 2, 3>>
    /\ Len(all) = 2 * perPage
    /\ lastResp.status = 403
    /\ ferr = "ratelimit"
    /\ out = << >>

\* C14: once ctx is cancelled while the fetch is in its page loop, no page
\* is served any more, no request is issued beyond the one for the page
\* reached, and the fetch returns the cancellation error with no releases,
\* whatever page it had reached.
C14_CancelEndsFetch ==
    [][ cancelled =>
          /\ served' = served
          /\ page' = page
          /\ requests' \in {requests, Append(requests, page)}
          /\ fpc' = "done" => ferr' = "canceled" /\ out' = << >> ]_vars

\* ctx was cancelled after two full pages, and the fetch returned
C14_Witness ==
    /\ cancelled
    /\ fpc = "done"
    /\ served = <<perPage, perPage>>
    /\ requests = <<1, 2, 3>>
    /\ ferr = "canceled"
    /\ out = << >>

\* the object the entry asks for is in place at the entry's target
InPlace(f, hdr, target) ==
    CASE hdr.typeflag = "dir" -> IsDirAt(f, target, TRUE)
      [] hdr.typeflag = "reg" ->
            LET r == Resolve(f, target, TRUE)
            IN  /\ r.st = "ok" /\ r.exists
                /\ f[r.path].kind = "file"
                /\ f[r.path].data = hdr.data
                /\ hdr.data # Truncated
      [] OTHER -> TRUE

\* the step made a new symlink at the target
LinkCreated(f, g, target) ==
    LET r == Resolve(g, target, FALSE)
    IN  /\ r.st = "ok" /\ r.exists
        /\ g[r.path].kind = "link"
        /\ r.path \notin DOMAIN f

\* C15: a gzip open failure, a tar read error, or a failure of directory
\* creation, file open or file copy ends the operation with an error at
\* that entry and nothing is processed afterwards; a symlink that cannot
\* be created is the only failure that does not: it raises exactly one
\* warning, no error, and the loop goes on.
C15_OnlySymlinkFailureContinues ==
    [][ /\ xerr' # "none" => xpc' = "ret"
        /\ xpc = "ret" => UNCHANGED xvars
        /\ (Len(archive') = Len(archive) + 1 /\ ~CleansToRejected(Last(archive'))) =>
              LET hdr == Last(archive')
                  target == JoinDest(Clean(hdr.name))
              IN  /\ xerr' = "none" => xpc' = "loop" /\ InPlace(fs', hdr, target)
                  /\ hdr.typeflag # "symlink" => warnings' = warnings
                  /\ hdr.typeflag = "symlink" =>
                        /\ IsDirAt(fs', Front(target), TRUE) => xerr' = "none"
                        /\ xerr' = "none" =>
                              \/ LinkCreated(fs, fs', target) /\ warnings' = warnings
                              \/ ~LinkCreated(fs, fs', target) /\ warnings' = warnings + 1 ]_vars

\* a symlink could not be created over an existing file, a warning was
\* raised, the entry after it was extracted and the operation succeeded
C15_Witness ==
    /\ xpc = "ret"
    /\ xerr = "none"
    /\ warnings = 1
    /\ Len(archive) = 3
    /\ archive[1].typeflag = "reg"
    /\ archive[2].typeflag = "symlink"
    /\ archive[2].name = archive[1].name
    /\ archive[3].typeflag = "reg"
    /\ archive[3].name # archive[1].name
    /\ InPlace(fs, archive[3], JoinDest(Clean(archive[3].name)))

\* C16: after every earlier refresh has completed, a further refresh that
\* runs alone to successful completion leaves availableReleases and
\* currentAvailable equal to what it computed from its own fetch, whatever
\* the earlier refreshes wrote while they raced.
C16_SoloRefreshWins ==
    \A g \in 1..Len(loaders) :
        (g = Len(loaders) /\ loaders[g].alone /\ loaders[g].pc = "queued") =>
            /\ availableReleases = loaders[g].filtered
            /\ currentAvailable = Labels(loaders[g].filtered)

\* two refreshes ran at the same time, a third ran after them alone and
\* stored a list other than the one its fetch would give unfiltered
C16_Witness ==
    /\ Len(loaders) = 3
    /\ ~loaders[1].alone /\ loaders[1].pc = "done"
    /\ ~loaders[2].alone /\ loaders[2].pc = "done"
    /\ loaders[3].alone /\ loaders[3].pc = "queued"
    /\ Len(loaders[3].filtered) = 1
    /\ currentInstalled # << >>
    /\ availableReleases = loaders[3].filtered

NoLoaderInFlight == \A g \in 1..Len(loaders) : ~InFlight(loaders[g])

\* C17: whenever no refresh is in flight, no release in availableReleases
\* has a tag equal, case ignored, to a name in currentInstalled, under any
\* interleaving of installs, removals and refreshes.
C17_InstalledAreHidden ==
    (NoLoaderInFlight /\ ipc \notin {"readdir", "assign"}) =>
        \A i \in 1..Len(availableReleases), j \in 1..Len(currentInstalled) :
            ToLower(availableReleases[i].tag) # ToLower(currentInstalled[j])

\* C18: whenever no loadAvailable goroutine is between its two assignments
\* (or still filling in the labels), currentAvailable and availableReleases
\* have the same length and currentAvailable[i] is the label of
\* availableReleases[i], also after two goroutines ran at the same time.
C18_LabelsMatchReleases ==
    (\A g \in 1..Len(loaders) : loaders[g].pc \notin {"assignLabels", "fill"}) =>
        /\ Len(currentAvailable) = Len(availableReleases)
        /\ \A i \in 1..Len(availableReleases) :
              currentAvailable[i] = formatReleaseLabel(availableReleases[i])

\* C19: the install and remove button handlers and the list item callbacks
\* never index availableReleases, currentAvailable or currentInstalled out
\* of range, also when a background goroutine replaces the slice between
\* the bounds check (or the length callback) and the indexed read.
C19_NoIndexOutOfRange ==
    panicked \notin {"installBtn", "removeBtn", "availableList", "installedList"}

====
